---- MODULE Spec2Model ----
(***************************************************************************)
(* Model of the useForm composable (src/composables/useForm.ts): the       *)
(* error map built by validate / validateField from a schema's failure     *)
(* tree, and the submission controller returned by handleSubmit.           *)
(*                                                                         *)
(* Strings are sequences of symbols.  The symbol "." is the separator      *)
(* character; every other symbol stands for a non-empty run of characters  *)
(* without a dot.  The empty sequence is the empty string.                 *)
(***************************************************************************)
EXTENDS Integers, Sequences, FiniteSets, TLC

VARIABLES form, heap, errors, isSubmitting, schema, dynamicValid, inflight, lastOp

vars == <<form, heap, errors, isSubmitting, schema, dynamicValid, inflight, lastOp>>

(***************************************************************************)
(* Bounds                                                                  *)
(***************************************************************************)
\* number of messages carried by a failure-tree node that has messages
MaxMsgs == 2
\* longest issue list of a failure drawn for ParseSpec
MaxIssues == 2
\* most handler invocations in flight at once
MaxInFlight == 2

(***************************************************************************)
(* Strings, paths and the error map                                        *)
(***************************************************************************)
Dot == <<".">>

\* Array.prototype.join("."), over a sequence of keys
RECURSIVE join(_)
join(path) ==
  IF Len(path) = 0 THEN <<>>
  ELSE IF Len(path) = 1 THEN path[1]
  ELSE path[1] \o Dot \o join(Tail(path))

\* String.prototype.split("."): the parts between the dots ("" splits to [""])
RECURSIVE splitFrom(_, _, _)
splitFrom(s, i, part) ==
  IF i > Len(s) THEN <<part>>
  ELSE IF s[i] = "." THEN <<part>> \o splitFrom(s, i + 1, <<>>)
  ELSE splitFrom(s, i + 1, Append(part, s[i]))

\* a descent that takes the whole path for one key
splitNot(s) == <<s>>

split(s) == splitFrom(s, 1, <<>>)

\* a walk that forgets the parent path
newPathOfKey(parentPath, key) == key

\* the template of line 56 and of lines 151-153: a parent path that is the
\* empty string is falsy, and the key alone is the new path
newPathOf(parentPath, key) ==
  IF parentPath # <<>> THEN parentPath \o Dot \o key ELSE key

NoErrors == [k \in {} |-> <<>>]

\* errors[path] = message
setError(errs, path, message) ==
  [k \in (DOMAIN errs) \cup {path} |-> IF k = path THEN message ELSE errs[k]]

\* validateField that empties the map where it should delete one key
deleteErrorAll(errs, path) == NoErrors

\* delete errors[path]
deleteError(errs, path) ==
  [k \in (DOMAIN errs) \ {path} |-> errs[k]]

\* validate that does not clear the previous errors
clearErrorsKept(errs) == errs

\* validate whose clearing loop stops after the first key
clearErrorsSkipping(errs) ==
  IF DOMAIN errs = {} THEN errs
  ELSE [k \in (DOMAIN errs) \ {CHOOSE x \in DOMAIN errs : TRUE} |-> errs[k]]

\* Object.keys(errors).forEach((key) => delete errors[key])
clearErrors(errs) == NoErrors

(***************************************************************************)
(* Failure trees: a node is [_errors |-> messages, entries |-> the own     *)
(* keys other than _errors, in Object.entries order, each with its node]   *)
(***************************************************************************)
Node(messages, entries) == [_errors |-> messages, entries |-> entries]
Entry(key, value) == [key |-> key, value |-> value]

\* processErrors (lines 39-60); the loop of lines 54-59 is processEntries
RECURSIVE processErrors(_, _, _)
RECURSIVE processEntries(_, _, _, _)
processErrors(errs, errObj, parentPath) ==
  LET own == IF Len(errObj._errors) > 0 /\ parentPath # <<>>
             THEN setError(errs, parentPath, errObj._errors[1])
             ELSE errs
  IN processEntries(own, errObj.entries, parentPath, 1)

processEntries(errs, entries, parentPath, i) ==
  IF i > Len(entries) THEN errs
  ELSE processEntries(
         processErrors(errs, entries[i].value, newPathOf(parentPath, entries[i].key)),
         entries, parentPath, i + 1)

RECURSIVE findIssue(_, _)
\* a search that takes the first issue whatever its path
findIssueAny(issues, i) ==
  IF i > Len(issues) THEN 0 ELSE i

\* result.error.issues.find((issue) => issue.path.length > 0): its index, or 0
findIssue(issues, i) ==
  IF i > Len(issues) THEN 0
  ELSE IF Len(issues[i].path) > 0 THEN i
  ELSE findIssue(issues, i + 1)

\* lines 65-75: the root's first message goes to the first issue with a path
refineErrors(errs, result) ==
  LET formattedErrors == result.tree
      i == findIssue(result.issues, 1)
  IN IF Len(formattedErrors._errors) > 0 /\ i # 0
     THEN setError(errs, join(result.issues[i].path), formattedErrors._errors[1])
     ELSE errs

\* the error map validate leaves (lines 29-78)
validateErrors(errs, result) ==
  IF ~result.success
  THEN refineErrors(processErrors(clearErrors(errs), result.tree, <<>>), result)
  ELSE clearErrors(errs)

\* the value validate returns (lines 77, 80)
validateReturn(result) == result.success

\* lines 94-101: the descent along pathParts; Null stands for null
Null == [null |-> TRUE]

RECURSIVE lookupEntry(_, _, _)
lookupEntry(entries, part, i) ==
  IF i > Len(entries) THEN 0
  ELSE IF entries[i].key = part THEN i
  ELSE lookupEntry(entries, part, i + 1)

RECURSIVE descend(_, _, _)
descend(errorObj, pathParts, i) ==
  IF i > Len(pathParts) THEN errorObj
  ELSE LET n == lookupEntry(errorObj.entries, pathParts[i], 1)
       IN IF n # 0 THEN descend(errorObj.entries[n].value, pathParts, i + 1)
          ELSE Null

\* lines 104-110: an error was found for the path
fieldHasError(result, path) ==
  /\ ~result.success
  /\ LET errorObj == descend(result.tree, split(path), 1)
     IN "_errors" \in DOMAIN errorObj /\ Len(errorObj._errors) > 0

\* the error map validateField leaves (lines 86-120)
validateFieldErrors(errs, result, path) ==
  IF fieldHasError(result, path)
  THEN setError(errs, path, descend(result.tree, split(path), 1)._errors[1])
  ELSE deleteError(errs, path)

\* the value validateField returns (lines 112, 122)
validateFieldReturn(result, path) == ~fieldHasError(result, path)

(***************************************************************************)
(* The form value.  form is the reactive copy of the default values; its   *)
(* nested objects live in heap and are reached by reference, so a shallow  *)
(* copy of form shares them.                                               *)
(***************************************************************************)
ObjectIds == {"address", "aa"}

defaultValues == [fullName |-> "", address |-> "address"]

defaultHeap == [address |-> [aa |-> "aa"], aa |-> [zipCode |-> ""]]

FullNames == {"", "Ann", "Bob"}
ZipCodes == {"", "100000"}

\* the plain value schema.safeParse reads through the reactive form
valueOf(f, h) == [fullName |-> f.fullName, zipCode |-> h[h[f.address].aa].zipCode]

FormValues == [fullName : FullNames, zipCode : ZipCodes]

\* a handler that is handed the default values
snapshotOfDefaults(f) == [fullName |-> "", address |-> "address"]

\* { ...form }: the own keys of form, each with the value form holds there
snapshotOf(f) == [k \in DOMAIN f |-> f[k]]

(***************************************************************************)
(* Schemas.  A schema is a function from the form value to the result of   *)
(* safeParse: success, or the formatted failure tree with the issue list.  *)
(***************************************************************************)
Success == [success |-> TRUE, tree |-> Node(<<>>, <<>>), issues |-> <<>>]
Failure(tree, issues) == [success |-> FALSE, tree |-> tree, issues |-> issues]

Issue(path, message) == [path |-> path, message |-> message]

\* ZodError.format(): every issue's message is pushed on the node its path
\* leads to, nodes being created on the way in issue order
RECURSIVE formatInsert(_, _, _)
formatInsert(node, path, message) ==
  IF Len(path) = 0 THEN [node EXCEPT !._errors = Append(@, message)]
  ELSE LET n == lookupEntry(node.entries, path[1], 1)
           child == IF n # 0 THEN node.entries[n].value ELSE Node(<<>>, <<>>)
           grown == formatInsert(child, Tail(path), message)
       IN IF n # 0 THEN [node EXCEPT !.entries[n].value = grown]
          ELSE [node EXCEPT !.entries = Append(@, Entry(path[1], grown))]

RECURSIVE format(_, _)
format(issues, i) ==
  IF i = 0 THEN Node(<<>>, <<>>)
  ELSE formatInsert(format(issues, i - 1), issues[i].path, issues[i].message)

\* the field rules of the pages' schemas and a whole-object refine that
\* reports under refinePath; the refine runs after the field rules
fullNameIssues(v) ==
  IF v.fullName = "" THEN <<Issue(<<(<<"fullName">>)>>, <<"fullName", 1>>)>> ELSE <<>>

zipCodeIssues(v) ==
  LET path == <<(<<"address">>), (<<"aa">>), (<<"zipCode">>)>>
  IN IF v.zipCode = "" THEN <<Issue(path, <<"zipCode", 1>>), Issue(path, <<"zipCode", 2>>)>>
     ELSE <<>>

refineIssues(v, refinePath) ==
  IF v.fullName = "Bob" THEN <<Issue(refinePath, <<"refine", 1>>)>> ELSE <<>>

safeParse(v, refinePath) ==
  LET issues == fullNameIssues(v) \o zipCodeIssues(v) \o refineIssues(v, refinePath)
  IN IF Len(issues) = 0 THEN Success
     ELSE Failure(format(issues, Len(issues)), issues)

\* the paths a refine of the modelled schemas declares: none, the field it
\* reads, or another field (advanced.vue: the rule reads paymentMethod and
\* reports under creditCardNumber)
RefinePaths ==
  { <<>>,
    <<(<<"fullName">>)>>,
    <<(<<"address">>), (<<"aa">>), (<<"zipCode">>)>> }

Schemas == {[v \in FormValues |-> safeParse(v, refinePath)] : refinePath \in RefinePaths}

(***************************************************************************)
(* Failures drawn for ParseSpec: any tree over the keys below with any     *)
(* issue list, as a schema of any kind may report them.                    *)
(***************************************************************************)
Messages(tag) == [i \in 1..MaxMsgs |-> <<tag, i>>]

MessageLists(tag) == {<<>>, Messages(tag)}

ZipCodeEntries ==
  {<<>>} \cup {<<Entry(<<"zipCode">>, Node(m, <<>>))>> : m \in MessageLists("zipCode")}

AaEntries ==
  {<<>>} \cup {<<Entry(<<"aa">>, Node(<<>>, z))>> : z \in ZipCodeEntries}

AddressEntries ==
  {<<>>} \cup {<<Entry(<<"address">>, Node(m, a))>> : m \in MessageLists("address"), a \in AaEntries}

\* a top-level key that itself contains a dot
DottedEntries ==
  {<<>>, <<Entry(<<"address", ".", "aa">>, Node(Messages("address.aa"), <<>>))>>}

ConfirmPasswordEntries ==
  {<<>>, <<Entry(<<"confirmPassword">>, Node(Messages("confirmPassword"), <<>>))>>}

\* a top-level key that is the empty string
EmptyKeyEntries ==
  {<<>>, <<Entry(<<>>, Node(Messages("empty"), <<>>))>>}

AnyTrees ==
  {Node(m, top \o c \o e) :
     m \in MessageLists("root"),
     top \in {a \o d : a \in AddressEntries, d \in DottedEntries}
             \cup {d \o a : a \in AddressEntries, d \in DottedEntries},
     c \in ConfirmPasswordEntries,
     e \in EmptyKeyEntries}

IssuePaths ==
  { <<>>,
    <<(<<"confirmPassword">>)>>,
    <<(<<"address">>), (<<"aa">>), (<<"zipCode">>)>>,
    <<(<<>>)>> }

IssueLists ==
  UNION {[1..n -> {Issue(p, <<"issue", 1>>) : p \in IssuePaths}] : n \in 0..MaxIssues}

AnyResults == {Success} \cup {Failure(t, is) : t \in AnyTrees, is \in IssueLists}

\* the paths handed to validateField on the form of the pages (the last one
\* names no field: advanced.vue line 158)
FormPaths ==
  { <<"fullName">>,
    <<"address", ".", "aa", ".", "zipCode">>,
    <<"address", ".", "zipCode">> }

\* the paths handed to validateField over the failures of ParseSpec
FieldPaths ==
  { <<"fullName">>,
    <<"address", ".", "aa", ".", "zipCode">>,
    <<"address", ".", "zipCode">>,
    <<"confirmPassword">>,
    <<"address">>,
    <<"address", ".", "aa">> }

(***************************************************************************)
(* The watchers bindDynamicValid installs over the form (lines 148-165):   *)
(* one per key whose value is not an object, with the path it validates.   *)
(***************************************************************************)
RECURSIVE bindDynamicValid(_, _, _)
bindDynamicValid(h, id, parent) ==
  LET values == IF id = "form" THEN defaultValues ELSE h[id]
  IN UNION { IF values[key] \in ObjectIds
             THEN bindDynamicValid(h, values[key], newPathOf(parent, <<key>>))
             ELSE {[object |-> id, key |-> key, path |-> newPathOf(parent, <<key>>)]}
           : key \in DOMAIN values }

\* a binder that does not recurse into nested objects
watchersShallow ==
  IF dynamicValid
  THEN {w \in bindDynamicValid(defaultHeap, "form", <<>>) : w.object = "form"}
  ELSE {}

\* line 167
watchers == IF dynamicValid THEN bindDynamicValid(defaultHeap, "form", <<>>) ELSE {}

\* the watcher callbacks run for a write of key in object: validateField on
\* the watcher's path (at most one watcher watches a key)
RECURSIVE runWatchers(_, _, _)
runWatchers(errs, ws, result) ==
  IF ws = {} THEN errs
  ELSE LET w == CHOOSE x \in ws : TRUE
       IN runWatchers(validateFieldErrors(errs, result, w.path), ws \ {w}, result)

watched(object, key) == {w \in watchers : w.object = object /\ w.key = key}

(***************************************************************************)
(* Operations                                                              *)
(***************************************************************************)
\* lastOp is the caller's view of the call that led to the state: the call,
\* its path argument, the value it returned (for a submit action: what its
\* validate returned), the state of the promise of the submit action it
\* belongs to, and the call made before it
Op(op, path, ret, action) ==
  [op |-> op, path |-> path, ret |-> ret, action |-> action, prev |-> lastOp.op]

\* the view of a write to the form: also the paths the watcher callbacks
\* of the write called validateField with
SetOp(op, path, action, ws) ==
  [op |-> op, path |-> path, ret |-> TRUE, action |-> action, prev |-> lastOp.op,
   called |-> {w.path : w \in ws}]

\* a watcher's callback runs when the watched value has changed
triggered(old, new, ws) == IF new # old THEN ws ELSE {}

\* a submit action without the finally block
finallyValueKept == TRUE

\* line 143: the value the finally block leaves in isSubmitting
finallyValue == FALSE

\* a catch that rethrows
catchOutcomeRethrown == "rejected"

\* the outcome of the action's promise when the handler throws or rejects:
\* the catch of lines 140-142 logs and does not rethrow
catchOutcome == "fulfilled"

\* v-model on a key of form itself
SetFormField(v) ==
  /\ form' = [form EXCEPT !.fullName = v]
  /\ LET ws == triggered(form.fullName, v, watched("form", "fullName"))
     IN /\ errors' = runWatchers(errors, ws, schema[valueOf(form', heap)])
        /\ lastOp' = SetOp("set", <<"fullName">>, "none", ws)
  /\ UNCHANGED <<heap, isSubmitting, schema, dynamicValid, inflight>>

\* v-model on a key of a nested object
SetNestedField(v) ==
  /\ heap' = [heap EXCEPT !.aa.zipCode = v]
  /\ LET ws == triggered(heap.aa.zipCode, v, watched("aa", "zipCode"))
     IN /\ errors' = runWatchers(errors, ws, schema[valueOf(form, heap')])
        /\ lastOp' = SetOp("set", <<"address", ".", "aa", ".", "zipCode">>, "none", ws)
  /\ UNCHANGED <<form, isSubmitting, schema, dynamicValid, inflight>>

\* validate() (lines 27-81)
Validate ==
  LET result == schema[valueOf(form, heap)]
  IN /\ errors' = validateErrors(errors, result)
     /\ lastOp' = Op("validate", <<>>, validateReturn(result), "none")
     /\ UNCHANGED <<form, heap, isSubmitting, schema, dynamicValid, inflight>>

\* validateField(path) (lines 84-123)
ValidateField(path) ==
  LET result == schema[valueOf(form, heap)]
  IN /\ errors' = validateFieldErrors(errors, result, path)
     /\ lastOp' = Op("validateField", path, validateFieldReturn(result, path), "none")
     /\ UNCHANGED <<form, heap, isSubmitting, schema, dynamicValid, inflight>>

\* a submit action that returns at once while an earlier handler is in flight
SubmitExclusive ==
  LET result == schema[valueOf(form, heap)]
      isValid == validateReturn(result)
  IN /\ (~isSubmitting /\ isValid) => Len(inflight) < MaxInFlight
     /\ IF isSubmitting
        THEN /\ lastOp' = Op("submit", <<>>, FALSE, "fulfilled")
             /\ UNCHANGED <<errors, isSubmitting, inflight>>
        ELSE /\ errors' = validateErrors(errors, result)
             /\ IF ~isValid
                THEN /\ lastOp' = Op("submit", <<>>, FALSE, "fulfilled")
                     /\ UNCHANGED <<isSubmitting, inflight>>
                ELSE /\ isSubmitting' = TRUE
                     /\ inflight' = Append(inflight, snapshotOf(form))
                     /\ lastOp' = Op("submit", <<>>, TRUE, "pending")
     /\ UNCHANGED <<form, heap, schema, dynamicValid>>

\* the action handleSubmit returns, up to its await (lines 129-139)
Submit ==
  LET result == schema[valueOf(form, heap)]
      isValid == validateReturn(result)
  IN /\ isValid => Len(inflight) < MaxInFlight
     /\ errors' = validateErrors(errors, result)
     /\ IF ~isValid
        THEN /\ lastOp' = Op("submit", <<>>, FALSE, "fulfilled")
             /\ UNCHANGED <<isSubmitting, inflight>>
        ELSE /\ isSubmitting' = TRUE
             /\ inflight' = Append(inflight, snapshotOf(form))
             /\ lastOp' = Op("submit", <<>>, TRUE, "pending")
     /\ UNCHANGED <<form, heap, schema, dynamicValid>>

removeAt(seq, i) == SubSeq(seq, 1, i - 1) \o SubSeq(seq, i + 1, Len(seq))

\* the handler of invocation i returns or resolves: the finally of line 143
HandlerReturns(i) ==
  /\ i \in 1..Len(inflight)
  /\ inflight' = removeAt(inflight, i)
  /\ isSubmitting' = finallyValue
  /\ lastOp' = Op("handlerReturns", <<>>, TRUE, "fulfilled")
  /\ UNCHANGED <<form, heap, errors, schema, dynamicValid>>

\* a handler failure that leaves the submit action without its finally
HandlerThrowsNoFinally(i) ==
  /\ i \in 1..Len(inflight)
  /\ inflight' = removeAt(inflight, i)
  /\ lastOp' = Op("handlerThrows", <<>>, TRUE, catchOutcome)
  /\ UNCHANGED <<form, heap, errors, isSubmitting, schema, dynamicValid>>

\* the handler of invocation i throws or rejects: lines 140-143
HandlerThrows(i) ==
  /\ i \in 1..Len(inflight)
  /\ inflight' = removeAt(inflight, i)
  /\ isSubmitting' = finallyValue
  /\ lastOp' = Op("handlerThrows", <<>>, TRUE, catchOutcome)
  /\ UNCHANGED <<form, heap, errors, schema, dynamicValid>>

\* a submit action that hands the form itself to the handler
HandlerSetsFieldOfForm(i, v) ==
  /\ i \in 1..Len(inflight)
  /\ inflight' = [inflight EXCEPT ![i].fullName = v]
  /\ form' = [form EXCEPT !.fullName = v]
  /\ lastOp' = SetOp("handlerSets", <<"fullName">>, "pending", {})
  /\ UNCHANGED <<heap, errors, isSubmitting, schema, dynamicValid>>

\* the handler of invocation i assigns a top-level key of the values it got
HandlerSetsField(i, v) ==
  /\ i \in 1..Len(inflight)
  /\ inflight' = [inflight EXCEPT ![i].fullName = v]
  /\ lastOp' = SetOp("handlerSets", <<"fullName">>, "pending", {})
  /\ UNCHANGED <<form, heap, errors, isSubmitting, schema, dynamicValid>>

\* the handler of invocation i assigns a key of the nested object its values
\* refer to, which is the object the form refers to
HandlerSetsNestedField(i, v) ==
  /\ i \in 1..Len(inflight)
  /\ inflight[i].address = "address"
  /\ heap' = [heap EXCEPT !.aa.zipCode = v]
  /\ LET ws == triggered(heap.aa.zipCode, v, watched("aa", "zipCode"))
     IN /\ errors' = runWatchers(errors, ws, schema[valueOf(form, heap')])
        /\ lastOp' = SetOp("handlerSets", <<"address", ".", "aa", ".", "zipCode">>, "pending", ws)
  /\ UNCHANGED <<form, isSubmitting, schema, dynamicValid, inflight>>

(***************************************************************************)
(* Specifications                                                          *)
(***************************************************************************)
\* after useForm(...) returns (lines 18-24, 167)
Constructed ==
  /\ form = snapshotOf(defaultValues)
  /\ heap = defaultHeap
  /\ errors = NoErrors
  /\ isSubmitting = FALSE
  /\ inflight = <<>>
  /\ lastOp = [op |-> "useForm", path |-> <<>>, ret |-> TRUE, action |-> "none", prev |-> "none"]

Init ==
  /\ Constructed
  /\ schema \in Schemas
  /\ dynamicValid \in BOOLEAN

Next ==
  \/ \E v \in FullNames : SetFormField(v)
  \/ \E v \in ZipCodes : SetNestedField(v)
  \/ Validate
  \/ \E path \in FormPaths : ValidateField(path)
  \/ Submit
  \/ \E i \in 1..MaxInFlight : HandlerReturns(i)
  \/ \E i \in 1..MaxInFlight : HandlerThrows(i)
  \/ \E i \in 1..MaxInFlight, v \in FullNames : HandlerSetsField(i, v)
  \/ \E i \in 1..MaxInFlight, v \in ZipCodes : HandlerSetsNestedField(i, v)

Spec == Init /\ [][Next]_vars

\* every handler invocation eventually returns, throws or rejects; the await
\* of line 138 then resumes the submit action (lines 139-143)
HandlersComplete ==
  \A i \in 1..MaxInFlight : WF_vars(HandlerReturns(i) \/ HandlerThrows(i))

\* the form of advanced.vue, constructed with dynamicValid: true
FairInit ==
  /\ Constructed
  /\ schema \in Schemas
  /\ dynamicValid = TRUE

FairSpec == FairInit /\ [][Next]_vars /\ HandlersComplete

\* validate and validateField over any failure a schema may report
ParseInit ==
  /\ Constructed
  /\ schema \in {[v \in FormValues |-> r] : r \in AnyResults}
  /\ dynamicValid = FALSE

ParseNext ==
  \/ Validate
  \/ \E path \in FieldPaths : ValidateField(path)

ParseSpec == ParseInit /\ [][ParseNext]_vars

(***************************************************************************)
(* Properties                                                              *)
(***************************************************************************)
\* the result of safeParse for the current form value
currentResult == schema[valueOf(form, heap)]

\* the nodes of a failure tree, each with the keys leading to it
RECURSIVE NodesOf(_, _)
NodesOf(node, path) ==
  {[path |-> path, node |-> node]} \cup
  UNION {NodesOf(node.entries[i].value, Append(path, node.entries[i].key)) :
           i \in 1..Len(node.entries)}

\* C1: validateField(p) leaves every entry of the error map whose key is not
\* p as it was: none is added, removed or changed, whether validation of the
\* whole value succeeds or fails.
PathScoping ==
  [][lastOp'.op = "validateField" =>
       \A k \in ((DOMAIN errors) \cup (DOMAIN errors')) \ {lastOp'.path} :
         /\ k \in DOMAIN errors
         /\ k \in DOMAIN errors'
         /\ errors'[k] = errors[k]]_vars

\* validateField has set the error of its path while another path has one
PathScopingWitness ==
  /\ lastOp.op = "validateField"
  /\ lastOp.ret = FALSE
  /\ lastOp.path \in DOMAIN errors
  /\ \E k \in DOMAIN errors : k # lastOp.path

\* C2: an invocation of the submit action starts no handler invocation when
\* validate returns false, and exactly one, on a copy of the current value,
\* when validate returns true.
SubmissionGating ==
  [][lastOp'.op = "submit" =>
       IF lastOp'.ret
       THEN /\ Len(inflight') = Len(inflight) + 1
            /\ SubSeq(inflight', 1, Len(inflight)) = inflight
            /\ inflight'[Len(inflight')].fullName = form.fullName
            /\ inflight'[Len(inflight')].address = form.address
       ELSE inflight' = inflight]_vars

\* a submit action has handed a changed, valid value to the handler
SubmissionGatingWitness ==
  /\ lastOp.op = "submit"
  /\ lastOp.ret = TRUE
  /\ inflight[Len(inflight)].fullName # defaultValues.fullName

\* C3: isSubmitting is true only while some handler invocation has begun and
\* not completed, and validate, validateField and a refused submit action
\* never set it.
SubmittingOnlyInFlight ==
  /\ [](isSubmitting => Len(inflight) > 0)
  /\ [][(\/ lastOp'.op \in {"validate", "validateField"}
          \/ (lastOp'.op = "submit" /\ ~lastOp'.ret)) => isSubmitting' = isSubmitting]_vars

\* a submit action was refused after an earlier handler completed
SubmittingOnlyInFlightWitness ==
  /\ lastOp.op = "submit"
  /\ lastOp.ret = FALSE
  /\ lastOp.prev \in {"handlerReturns", "handlerThrows"}
  /\ ~isSubmitting

\* C4: when the handler throws or rejects, the submit action still completes
\* normally, isSubmitting is false once no handler is in flight, and neither
\* the error map nor the form value changes.
HandlerFailureSwallowed ==
  [][lastOp'.op = "handlerThrows" =>
       /\ lastOp'.action = "fulfilled"
       /\ (Len(inflight') = 0 => ~isSubmitting')
       /\ errors' = errors
       /\ form' = form
       /\ heap' = heap]_vars

\* a handler has thrown while the error map held entries
HandlerFailureSwallowedWitness ==
  /\ lastOp.op = "handlerThrows"
  /\ inflight = <<>>
  /\ DOMAIN errors # {}

\* an entry of the error map that the failure r accounts for: the key is the
\* path of a node with messages and holds its first message, or it is the
\* path of an issue and holds the root's first message
Derived(k, r) ==
  \E n \in NodesOf(r.tree, <<>>) :
    /\ Len(n.node._errors) > 0
    /\ errors[k] = n.node._errors[1]
    /\ \/ k = join(n.path)
       \/ (n.path = <<>> /\ \E i \in 1..Len(r.issues) : k = join(r.issues[i].path))

\* C5: validate returns true exactly when validation of the current value
\* succeeds; the error map is then empty; when it returns false, every entry
\* of the error map comes from the current failure.
ValidateResult ==
  lastOp.op = "validate" =>
    /\ lastOp.ret = currentResult.success
    /\ lastOp.ret => errors = NoErrors
    /\ ~lastOp.ret => \A k \in DOMAIN errors : Derived(k, currentResult)

\* validate has failed on a value set after an earlier call, and has left
\* entries in the error map
ValidateResultWitness ==
  /\ lastOp.op = "validate"
  /\ lastOp.ret = FALSE
  /\ lastOp.prev = "set"
  /\ DOMAIN errors # {}

\* C6: a validate that directly follows a validate returns the same value
\* and leaves the same error map.
ValidateIdempotent ==
  [][(lastOp'.op = "validate" /\ lastOp'.prev = "validate") =>
       (errors' = errors /\ lastOp'.ret = lastOp.ret)]_vars

\* validate has been called twice in a row on a value that fails
ValidateIdempotentWitness ==
  /\ lastOp.op = "validate"
  /\ lastOp.prev = "validate"
  /\ lastOp.ret = FALSE
  /\ DOMAIN errors # {}

\* the nodes of the current failure tree
currentNodes == NodesOf(currentResult.tree, <<>>)

\* validate has just reported a failure of the current value
validateFailed == lastOp.op = "validate" /\ ~lastOp.ret

\* C7: after a failing validate the error map has exactly one entry per leaf
\* path whose node has messages, holding the first message of that node
\* (entries are looked for at the paths of the nodes that have messages).
FirstWins ==
  validateFailed =>
    /\ \A n \in currentNodes :
         (n.path # <<>> /\ n.node.entries = <<>> /\ Len(n.node._errors) > 0) =>
           /\ join(n.path) \in DOMAIN errors
           /\ errors[join(n.path)] = n.node._errors[1]
    /\ \A k \in DOMAIN errors :
         \E n \in currentNodes :
           n.path # <<>> /\ Len(n.node._errors) > 0 /\ k = join(n.path)

PathReconstructionAnyKey ==
  validateFailed =>
    /\ \A n \in currentNodes :
         (n.path # <<>> /\ Len(n.node._errors) > 0) => join(n.path) \in DOMAIN errors
    /\ <<>> \notin DOMAIN errors

\* C9, amended: after a failing validate every node that has messages and is
\* reached through keys of which the first is not the empty string has an
\* entry under its dot-joined keys; an entry under the empty path is there
\* only when the root has messages and the path of the first issue with a
\* non-empty path joins to the empty string, and it holds the root's first
\* message.
PathReconstruction ==
  validateFailed =>
    /\ \A n \in currentNodes :
         (n.path # <<>> /\ n.path[1] # <<>> /\ Len(n.node._errors) > 0) =>
           join(n.path) \in DOMAIN errors
    /\ <<>> \in DOMAIN errors =>
         /\ Len(currentResult.tree._errors) > 0
         /\ errors[<<>>] = currentResult.tree._errors[1]
         /\ \E i \in 1..Len(currentResult.issues) :
              /\ Len(currentResult.issues[i].path) > 0
              /\ join(currentResult.issues[i].path) = <<>>
              /\ \A j \in 1..(i - 1) : Len(currentResult.issues[j].path) = 0

\* a failing validate has recorded the node address -> aa -> zipCode under
\* the key "address.aa.zipCode" and its parent address under "address"
PathReconstructionWitness ==
  /\ validateFailed
  /\ \E n \in currentNodes :
       /\ n.path = <<(<<"address">>), (<<"aa">>), (<<"zipCode">>)>>
       /\ Len(n.node._errors) > 0
  /\ <<"address", ".", "aa", ".", "zipCode">> \in DOMAIN errors
  /\ <<"address">> \in DOMAIN errors

\* C10: when a submit action is refused because validation failed, the
\* error map is not empty.
RefusedSubmitHasErrors ==
  (lastOp.op = "submit" /\ ~lastOp.ret) => DOMAIN errors # {}

\* the nodes the path p leads to: those other than the root whose keys hold
\* no dot and join to p
NodesAt(p) ==
  {n \in currentNodes :
     /\ Len(n.path) > 0
     /\ \A i \in 1..Len(n.path) : \A j \in 1..Len(n.path[i]) : n.path[i][j] # "."
     /\ join(n.path) = p}

\* C11: validateField(p) returns false and sets the entry of p to the first
\* message of the node at p exactly when validation fails and the descent
\* along the segments of p reaches a node with messages; otherwise it
\* returns true and leaves no entry for p.
FieldResult ==
  lastOp.op = "validateField" =>
    LET p == lastOp.path
        hit == {n \in NodesAt(p) : Len(n.node._errors) > 0}
    IN IF ~currentResult.success /\ hit # {}
       THEN /\ lastOp.ret = FALSE
            /\ p \in DOMAIN errors
            /\ \A n \in hit : errors[p] = n.node._errors[1]
       ELSE /\ lastOp.ret = TRUE
            /\ p \notin DOMAIN errors

\* validateField has found the messages of the node address -> aa -> zipCode
FieldResultWitness ==
  /\ lastOp.op = "validateField"
  /\ lastOp.path = <<"address", ".", "aa", ".", "zipCode">>
  /\ lastOp.ret = FALSE
  /\ lastOp.path \in DOMAIN errors

\* the issues of a failure whose path joins to p
IssuesAt(r, p) == {i \in 1..Len(r.issues) : join(r.issues[i].path) = p}

SnapshotIsolationDeep ==
  [][/\ lastOp'.op = "handlerSets" => valueOf(form', heap') = valueOf(form, heap)
     /\ lastOp'.op = "set" => inflight' = inflight]_vars

\* C13, amended: a write of the handler to a top-level field of the values
\* it got leaves the form value as it was, a write inside the nested object
\* is a write to the nested object of the form, and a write to the form
\* leaves the top-level fields of the values handed to the handlers in
\* flight as they were.
SnapshotIsolation ==
  [][/\ (lastOp'.op = "handlerSets" /\ lastOp'.path = <<"fullName">>) =>
          valueOf(form', heap') = valueOf(form, heap)
     /\ (lastOp'.op = "handlerSets" /\ lastOp'.path # <<"fullName">>) =>
          /\ form' = form
          /\ \E v \in ZipCodes : heap' = [heap EXCEPT !.aa.zipCode = v]
     /\ lastOp'.op = "set" => inflight' = inflight]_vars

\* a handler has changed the full name in the values it got, and the form
\* still has another full name
SnapshotIsolationWitness ==
  /\ lastOp.op = "handlerSets"
  /\ lastOp.path = <<"fullName">>
  /\ \E i \in 1..Len(inflight) : inflight[i].fullName # form.fullName

\* C14: with dynamicValid, every key of the error map is a path at which
\* validation of the current form value reports an issue.
ErrorMapSound ==
  dynamicValid => \A k \in DOMAIN errors : IssuesAt(currentResult, k) # {}

\* C15: a submit action invoked while isSubmitting is true is not blocked: it
\* runs validate, which replaces the error map, and when the value is valid
\* it starts one more handler invocation beside the one still in flight.
OverlappingSubmits ==
  [][(lastOp'.op = "submit" /\ isSubmitting) =>
       /\ errors' = validateErrors(errors, currentResult)
       /\ lastOp'.ret = validateReturn(currentResult)
       /\ (lastOp'.ret =>
             /\ Len(inflight') = Len(inflight) + 1
             /\ Len(inflight') >= 2
             /\ isSubmitting')]_vars

\* a second submit action passed validation while the first handler was still
\* in flight: two invocations are in flight and validate left the map empty
OverlappingSubmitsWitness ==
  /\ lastOp.op = "submit"
  /\ lastOp.ret = TRUE
  /\ isSubmitting
  /\ Len(inflight) = 2
  /\ errors = NoErrors

\* C16: when every handler invocation eventually completes, every submit
\* action eventually completes (the invocation at position m of those in
\* flight does not stay there for ever, also when several are in flight),
\* isSubmitting is false once none is in flight, and it becomes true again
\* only by a submit action that passes validation.
SubmissionLiveness ==
  /\ \A m \in 1..MaxInFlight :
        <>[](Len(inflight) >= m) =>
          []<><<\E i \in 1..m : HandlerReturns(i) \/ HandlerThrows(i)>>_vars
  /\ isSubmitting ~> ~isSubmitting
  /\ [](Len(inflight) = 0 => ~isSubmitting)
  /\ [][(~isSubmitting /\ isSubmitting') => (lastOp'.op = "submit" /\ lastOp'.ret)]_vars

\* two overlapping submit actions have both completed, the later completion
\* by a throwing handler, and the flag is down
SubmissionLivenessWitness ==
  /\ lastOp.op = "handlerThrows"
  /\ lastOp.prev = "handlerReturns"
  /\ inflight = <<>>
  /\ ~isSubmitting

\* C17: when validation fails, the root has messages and no issue has a path,
\* validate returns false and records the root message nowhere: every entry
\* of the error map is the first message of a node other than the root.
EmptyPathDropped ==
  LET r == currentResult
  IN (/\ lastOp.op = "validate"
      /\ ~r.success
      /\ Len(r.tree._errors) > 0
      /\ \A i \in 1..Len(r.issues) : r.issues[i].path = <<>>) =>
       /\ lastOp.ret = FALSE
       /\ \A k \in DOMAIN errors :
            /\ errors[k] # r.tree._errors[1]
            /\ \E n \in currentNodes :
                 /\ n.path # <<>>
                 /\ Len(n.node._errors) > 0
                 /\ k = join(n.path)
                 /\ errors[k] = n.node._errors[1]

\* validate has failed on a root message whose only issue has the empty
\* path, beside a field with messages of its own
EmptyPathDroppedWitness ==
  /\ lastOp.op = "validate"
  /\ ~currentResult.success
  /\ Len(currentResult.tree._errors) > 0
  /\ Len(currentResult.issues) > 0
  /\ \A i \in 1..Len(currentResult.issues) : currentResult.issues[i].path = <<>>
  /\ DOMAIN errors = {<<"confirmPassword">>}

\* C18: whenever a handler invocation started by a submit action has begun
\* and not completed, isSubmitting is true.
FlagCoversInFlight ==
  Len(inflight) > 0 => isSubmitting

\* C19: the entry of p that validateField(p) leaves (present with its
\* message, or absent) is the entry of p that validate leaves on the same
\* form value.
FieldAgreesWithValidate ==
  lastOp.op = "validateField" =>
    LET p == lastOp.path
        full == validateErrors(errors, currentResult)
    IN /\ (p \in DOMAIN errors) = (p \in DOMAIN full)
       /\ (p \in DOMAIN errors) => errors[p] = full[p]

====
